---- MODULE Spec2Model ----
(***************************************************************************)
(* String and alignment algorithms of iris/algorithms.py: edit_distance    *)
(* (rolling-row Levenshtein), full_edit_distance (Wagner-Fischer scoring   *)
(* and operation matrices) and align (backtrace over the operation         *)
(* matrix), the Greek code-point ranges and extract_hocr_tokens; together  *)
(* with the semi-global alignment, the deletion variants and the binary    *)
(* search over a sorted dictionary file that the test suite exercises.     *)
(* A behaviour of Spec is                                                  *)
(* a sequence of calls of the three alignment functions, each from         *)
(* argument binding to return; the other specifications follow one call    *)
(* of the function they are named after.                                   *)
(***************************************************************************)
EXTENDS Integers, Sequences, FiniteSets, TLC

VARIABLES fn, arg1, arg2, kwargs, charmatrix, pc, str1, str2,
          previous_row, pos, matrix, steps, i, j, path, ret, err,
          calls, dmap, word, entryparser, imin, imax, dels, string,
          result, found, hocr_file, context, words

\* the state of a lookup: dictionary search, deletion variants, Greek filter
lookupVars == <<dmap, word, entryparser, imin, imax, dels, string, result, found>>

\* the state of an alignment or distance call
alignVars == <<arg1, arg2, kwargs, charmatrix, str1, str2,
               previous_row, pos, matrix, steps, i, j, path, ret, calls>>

\* the state of extract_hocr_tokens
hocrVars == <<hocr_file, context, words>>

vars == <<fn, pc, err, alignVars, lookupVars, hocrVars>>

-----------------------------------------------------------------------------
(* Bounds of the explored inputs.                                          *)

\* longest sequence passed to full_edit_distance and align
MaxLen == 3
\* longest sequence passed to edit_distance
MaxLenEd == 5
\* longest sequence passed together with explicit scores or overrides
MaxScoredLen == 2
\* most calls made one after the other with the same override mapping
MaxCalls == 2

\* the units (characters or words) sequences are made of, in a fixed order
UnitOrder == <<"a", "b", "the">>
Units == {UnitOrder[k] : k \in 1..Len(UnitOrder)}
ScoredUnits == {"a", "b"}
\* the score values a caller passes
Scores == {-7, 1, 2}

SeqsUpTo(S, n) == UNION {[1..k -> S] : k \in 0..n}

UnitIndex(u) == CHOOSE k \in 1..Len(UnitOrder) : UnitOrder[k] = u

\* Renaming the units changes no result of a call without overrides, so the
\* first argument is drawn up to renaming: its units make their first
\* appearance in the order of UnitOrder.
FirstUseOrdered(s) ==
    \A p \in 1..Len(s) :
        \A k \in 1..(UnitIndex(s[p]) - 1) :
            \E q \in 1..(p - 1) : s[q] = UnitOrder[k]

CanonSeqsUpTo(n) == {s \in SeqsUpTo(Units, n) : FirstUseOrdered(s)}


\* the reference examples of the test suite, as sequences of characters
sitting == <<"s", "i", "t", "t", "i", "n", "g">>
kitten == <<"k", "i", "t", "t", "e", "n">>
sunday == <<"s", "u", "n", "d", "a", "y">>
saturday == <<"s", "a", "t", "u", "r", "d", "a", "y">>

-----------------------------------------------------------------------------
(* Helpers.                                                                *)

Min(x, y) == IF x <= y THEN x ELSE y

\* dict.get(key, default)
Get(cm, key, default) == IF key \in DOMAIN cm THEN cm[key] ELSE default

\* the empty mapping {} and an absent keyword dictionary
EmptyMap == <<>>

\* default value of substitutionscore, insertscore and deletescore
DefaultScore == 1

ScoreNames == {"substitutionscore", "insertscore", "deletescore"}

\* Param ignoring the keyword
Param_ignored(kw, name) == DefaultScore

\* value of a score parameter after binding: the keyword if passed, else the default
Param(kw, name) == IF name \in DOMAIN kw THEN kw[name] ELSE DefaultScore

-----------------------------------------------------------------------------
(* edit_distance                                                           *)

\* numpy.arange(n + 1)
arange(n) == [c \in 0..n |-> c]

\* current_row with the comparison of line 43 inverted (str2 == s)
current_row_inverted(prev, s, s2) ==
    LET m == Len(s2)
        inserted == [c \in 0..m |-> prev[c] + 1]
        substituted == [c \in 0..m |->
                          IF c = 0 THEN inserted[0]
                          ELSE Min(inserted[c],
                                   prev[c - 1] + (IF s2[c] = s THEN 1 ELSE 0))]
        deleted == [c \in 0..m |->
                          IF c = 0 THEN substituted[0]
                          ELSE Min(substituted[c], substituted[c - 1] + 1)]
    IN  deleted

\* current_row without the "+ 1" of the first statement
current_row_no_increment(prev, s, s2) ==
    LET m == Len(s2)
        substituted == [c \in 0..m |->
                          IF c = 0 THEN prev[0]
                          ELSE Min(prev[c],
                                   prev[c - 1] + (IF s2[c] # s THEN 1 ELSE 0))]
    IN  [c \in 0..m |->
            IF c = 0 THEN substituted[0]
            ELSE Min(substituted[c], substituted[c - 1] + 1)]

\* One iteration of the loop "for s in str1": the three whole-array
\* statements, each reading the array values of the statement before it.
current_row(prev, s, s2) ==
    LET m == Len(s2)
        inserted == [c \in 0..m |-> prev[c] + 1]
        substituted == [c \in 0..m |->
                          IF c = 0 THEN inserted[0]
                          ELSE Min(inserted[c],
                                   prev[c - 1] + (IF s2[c] # s THEN 1 ELSE 0))]
        deleted == [c \in 0..m |->
                          IF c = 0 THEN substituted[0]
                          ELSE Min(substituted[c], substituted[c - 1] + 1)]
    IN  deleted

RECURSIVE rows_from(_, _, _, _)
rows_from(prev, s1, s2, p) ==
    IF p = Len(s1) THEN prev
    ELSE rows_from(current_row(prev, s1[p + 1], s2), s1, s2, p + 1)

\* the value edit_distance(a, b) returns
edit_distance(a, b) ==
    LET l == IF Len(a) < Len(b) THEN b ELSE a
        s == IF Len(a) < Len(b) THEN a ELSE b
    IN  IF Len(s) = 0 THEN Len(l)
        ELSE rows_from(arange(Len(s)), l, s, 0)[Len(s)]

-----------------------------------------------------------------------------
(* full_edit_distance                                                      *)

\* scores looking the override up for the substitution only
scores_substitution_override(diag, left, up, c1, c2, sub, ins, del, cm) ==
    << <<"s", diag + Get(cm, <<c1, c2>>, sub)>>,
       <<"i", left + ins>>,
       <<"d", up + del>> >>

\* the three candidates of an interior cell, in the order of the tuple
scores(diag, left, up, c1, c2, sub, ins, del, cm) ==
    << <<"s", diag + Get(cm, <<c1, c2>>, sub)>>,
       <<"i", left + Get(cm, <<c1, c2>>, ins)>>,
       <<"d", up + Get(cm, <<c1, c2>>, del)>> >>

\* bestoption taking the last element with the least score
bestoption_last(sc) ==
    LET k == CHOOSE k \in 1..Len(sc) :
                 /\ \A l \in 1..Len(sc) : sc[k][2] <= sc[l][2]
                 /\ \A l \in (k + 1)..Len(sc) : sc[l][2] > sc[k][2]
    IN  sc[k]

\* min(scores, key=lambda x: x[1]): the first element with the least score
bestoption(sc) ==
    LET k == CHOOSE k \in 1..Len(sc) :
                 /\ \A l \in 1..Len(sc) : sc[k][2] <= sc[l][2]
                 /\ \A l \in 1..(k - 1) : sc[l][2] > sc[k][2]
    IN  sc[k]

\* interior_cell recording equal units as a substitution
interior_cell_no_match(diag, left, up, c1, c2, sub, ins, del, cm) ==
    IF c1 = c2 THEN [score |-> diag, op |-> "s"]
    ELSE LET best == bestoption(scores(diag, left, up, c1, c2, sub, ins, del, cm))
         IN  [score |-> best[2], op |-> best[1]]

\* interior_cell taking a match only when no candidate is cheaper
interior_cell_cheapest(diag, left, up, c1, c2, sub, ins, del, cm) ==
    LET best == bestoption(scores(diag, left, up, c1, c2, sub, ins, del, cm))
    IN  IF c1 = c2 /\ diag <= best[2] THEN [score |-> diag, op |-> "m"]
        ELSE [score |-> best[2], op |-> best[1]]

\* cell (r, c) of the two matrices, r >= 1 and c >= 1, from its neighbours
interior_cell(diag, left, up, c1, c2, sub, ins, del, cm) ==
    IF c1 = c2 THEN [score |-> diag, op |-> "m"]
    ELSE LET best == bestoption(scores(diag, left, up, c1, c2, sub, ins, del, cm))
         IN  [score |-> best[2], op |-> best[1]]

\* first_row without the factor j
first_row_flat(s2, ins, cm) ==
    [c \in 0..Len(s2) |->
        IF c = 0 THEN [score |-> 0, op |-> ""]
        ELSE [score |-> Get(cm, <<s2[c], "">>, ins), op |-> "i"]]

\* row 0: matrix[0,0] = 0, matrix[0,j] = j * get((str2[j-1], ''), insertscore)
first_row(s2, ins, cm) ==
    [c \in 0..Len(s2) |->
        IF c = 0 THEN [score |-> 0, op |-> ""]
        ELSE [score |-> c * Get(cm, <<s2[c], "">>, ins), op |-> "i"]]

\* first_column recording an insertion
first_column_insert(s1, r, del, cm) ==
    [score |-> r * Get(cm, <<"", s1[r]>>, del), op |-> "i"]

\* first_column with the factor off by one
first_column_off_by_one(s1, r, del, cm) ==
    [score |-> (r - 1) * Get(cm, <<"", s1[r]>>, del), op |-> "d"]

\* column 0 of row r >= 1: matrix[i,0] = i * get(('', str1[i-1]), deletescore)
first_column(s1, r, del, cm) ==
    [score |-> r * Get(cm, <<"", s1[r]>>, del), op |-> "d"]

\* cells 0..c of row r, given the complete row above
RECURSIVE fill_row(_, _, _, _, _, _, _, _, _)
fill_row(above, s1, s2, r, c, sub, ins, del, cm) ==
    IF c = 0 THEN (0 :> first_column(s1, r, del, cm))
    ELSE LET done == fill_row(above, s1, s2, r, c - 1, sub, ins, del, cm)
         IN  done @@ (c :> interior_cell(above[c - 1].score, done[c - 1].score,
                                         above[c].score, s1[r], s2[c],
                                         sub, ins, del, cm))

\* rows 0..r of the two matrices
RECURSIVE fill_rows(_, _, _, _, _, _, _)
fill_rows(s1, s2, r, sub, ins, del, cm) ==
    IF r = 0 THEN (0 :> first_row(s2, ins, cm))
    ELSE LET done == fill_rows(s1, s2, r - 1, sub, ins, del, cm)
         IN  done @@ (r :> fill_row(done[r - 1], s1, s2, r, Len(s2),
                                    sub, ins, del, cm))

\* the pair (matrix, steps) full_edit_distance returns
full_edit_distance(s1, s2, sub, ins, del, cm) ==
    LET cells == fill_rows(s1, s2, Len(s1), sub, ins, del, cm)
    IN  [matrix |-> [r \in 0..Len(s1) |-> [c \in 0..Len(s2) |-> cells[r][c].score]],
         steps |-> [r \in 0..Len(s1) |-> [c \in 0..Len(s2) |-> cells[r][c].op]]]

-----------------------------------------------------------------------------
(* align                                                                   *)

\* key with 'i' moving up instead of left
key_insert_up(op) ==
    CASE op = "i" -> <<-1, 0>>
      [] op = "d" -> <<-1, 0>>
      [] op = "m" -> <<-1, -1>>
      [] op = "s" -> <<-1, -1>>

\* key with 's' moving up instead of diagonally
key_substitution_up(op) ==
    CASE op = "i" -> <<0, -1>>
      [] op = "d" -> <<-1, 0>>
      [] op = "m" -> <<-1, -1>>
      [] op = "s" -> <<-1, 0>>

\* key = {'i':(0,-1), 'd':(-1,0), 'm':(-1,-1), 's':(-1,-1)}
key(op) ==
    CASE op = "i" -> <<0, -1>>
      [] op = "d" -> <<-1, 0>>
      [] op = "m" -> <<-1, -1>>
      [] op = "s" -> <<-1, -1>>

RECURSIVE backtrace(_, _, _, _)
backtrace(st, r, c, acc) ==
    IF st[r][c] = "" THEN acc
    ELSE backtrace(st, r + key(st[r][c])[1], c + key(st[r][c])[2],
                   <<st[r][c]>> \o acc)

\* the path align(s1, s2, ...) returns
align(s1, s2, sub, ins, del, cm) ==
    LET fed == full_edit_distance(s1, s2, sub, ins, del, cm)
    IN  backtrace(fed.steps, Len(s1), Len(s2), <<>>)

-----------------------------------------------------------------------------
(* The calls explored.                                                     *)

KwargSets == UNION {[S -> Scores] : S \in SUBSET ScoreNames}

CharMatrices ==
    {EmptyMap,
     (<<"a", "b">> :> 0), (<<"a", "b">> :> 1), (<<"a", "b">> :> 5),
     (<<"", "a">> :> 2), (<<"a", "">> :> 2), (<<"", "a">> :> 5)}

Functions == {"edit_distance", "full_edit_distance", "align"}

\* calls with default scores and no overrides
DefaultCalls ==
    /\ kwargs = EmptyMap
    /\ charmatrix = EmptyMap
    /\ \/ /\ fn \in {"full_edit_distance", "align"}
          /\ arg1 \in CanonSeqsUpTo(MaxLen)
          /\ arg2 \in SeqsUpTo(Units, MaxLen)
       \/ /\ fn = "edit_distance"
          /\ arg1 \in CanonSeqsUpTo(MaxLenEd)
          /\ arg2 \in SeqsUpTo(Units, MaxLenEd)

\* calls passing score keywords, or an override mapping
ScoredCalls ==
    /\ arg1 \in SeqsUpTo(ScoredUnits, MaxScoredLen)
    /\ arg2 \in SeqsUpTo(ScoredUnits, MaxScoredLen)
    /\ \/ /\ fn \in Functions
          /\ kwargs \in KwargSets
          /\ charmatrix = EmptyMap
       \/ /\ fn \in {"full_edit_distance", "align"}
          /\ kwargs = EmptyMap
          /\ charmatrix \in CharMatrices

\* the calls of the reference examples, in both argument orders
ReferenceCalls ==
    /\ fn \in Functions
    /\ kwargs = EmptyMap
    /\ charmatrix = EmptyMap
    /\ \E ab \in {<<sitting, kitten>>, <<kitten, sitting>>,
                  <<sunday, saturday>>, <<saturday, sunday>>} :
          arg1 = ab[1] /\ arg2 = ab[2]

-----------------------------------------------------------------------------
(* The state machine.                                                      *)

\* no lookup is in progress
NoLookup ==
    /\ dmap = <<>>
    /\ word = <<>>
    /\ entryparser = ""
    /\ imin = 0
    /\ imax = 0
    /\ dels = 0
    /\ string = <<>>
    /\ result = <<>>
    /\ found = FALSE

\* no hOCR file is being read
NoHocr ==
    /\ hocr_file = <<>>
    /\ context = 0
    /\ words = <<>>

Init ==
    /\ DefaultCalls \/ ScoredCalls \/ ReferenceCalls
    /\ calls = 1
    /\ NoLookup
    /\ pc = "call"
    /\ str1 = arg1
    /\ str2 = arg2
    /\ previous_row = <<>>
    /\ pos = 0
    /\ matrix = <<>>
    /\ steps = <<>>
    /\ i = 0
    /\ j = 0
    /\ path = <<>>
    /\ ret = 0
    /\ err = ""
    /\ NoHocr

\* def edit_distance(str1, str2): a keyword the signature does not name
\* cannot be bound and the call raises TypeError
EditDistanceBind ==
    /\ pc = "call"
    /\ fn = "edit_distance"
    /\ DOMAIN kwargs # {}
    /\ pc' = "raised"
    /\ err' = "TypeError"
    /\ UNCHANGED <<fn, arg1, arg2, kwargs, charmatrix, str1, str2,
                   previous_row, pos, matrix, steps, i, j, path, ret>>
    /\ UNCHANGED <<calls, lookupVars>>
    /\ UNCHANGED hocrVars

\* if len(str1) < len(str2): return edit_distance(str2, str1)
EditDistanceSwap ==
    /\ pc = "call"
    /\ fn = "edit_distance"
    /\ DOMAIN kwargs = {}
    /\ Len(str1) < Len(str2)
    /\ str1' = str2
    /\ str2' = str1
    /\ UNCHANGED <<fn, arg1, arg2, kwargs, charmatrix, pc,
                   previous_row, pos, matrix, steps, i, j, path, ret, err>>
    /\ UNCHANGED <<calls, lookupVars>>
    /\ UNCHANGED hocrVars

\* if len(str2) == 0: return len(str1)
EditDistanceEmpty ==
    /\ pc = "call"
    /\ fn = "edit_distance"
    /\ DOMAIN kwargs = {}
    /\ Len(str1) >= Len(str2)
    /\ Len(str2) = 0
    /\ ret' = Len(str1)
    /\ pc' = "done"
    /\ UNCHANGED <<fn, arg1, arg2, kwargs, charmatrix, str1, str2,
                   previous_row, pos, matrix, steps, i, j, path, err>>
    /\ UNCHANGED <<calls, lookupVars>>
    /\ UNCHANGED hocrVars

\* previous_row = numpy.arange(str2.size + 1)
EditDistanceInit ==
    /\ pc = "call"
    /\ fn = "edit_distance"
    /\ DOMAIN kwargs = {}
    /\ Len(str1) >= Len(str2)
    /\ Len(str2) # 0
    /\ previous_row' = arange(Len(str2))
    /\ pos' = 0
    /\ pc' = "loop"
    /\ UNCHANGED <<fn, arg1, arg2, kwargs, charmatrix, str1, str2,
                   matrix, steps, i, j, path, ret, err>>
    /\ UNCHANGED <<calls, lookupVars>>
    /\ UNCHANGED hocrVars

\* one iteration of "for s in str1"
EditDistanceRow ==
    /\ pc = "loop"
    /\ pos < Len(str1)
    /\ previous_row' = current_row(previous_row, str1[pos + 1], str2)
    /\ pos' = pos + 1
    /\ UNCHANGED <<fn, arg1, arg2, kwargs, charmatrix, pc, str1, str2,
                   matrix, steps, i, j, path, ret, err>>
    /\ UNCHANGED <<calls, lookupVars>>
    /\ UNCHANGED hocrVars

\* return previous_row[-1]
EditDistanceReturn ==
    /\ pc = "loop"
    /\ pos = Len(str1)
    /\ ret' = previous_row[Len(str2)]
    /\ pc' = "done"
    /\ UNCHANGED <<fn, arg1, arg2, kwargs, charmatrix, str1, str2,
                   previous_row, pos, matrix, steps, i, j, path, err>>
    /\ UNCHANGED <<calls, lookupVars>>
    /\ UNCHANGED hocrVars

\* FullEditDistanceCall storing the default score of every pair of units it
\* looks up (setdefault in place of get)
FullEditDistanceCallStores ==
    /\ pc = "call"
    /\ fn = "full_edit_distance"
    /\ LET fed == full_edit_distance(str1, str2,
                                     Param(kwargs, "substitutionscore"),
                                     Param(kwargs, "insertscore"),
                                     Param(kwargs, "deletescore"),
                                     charmatrix)
           looked == {<<str1[r], str2[c]>> : r \in 1..Len(str1), c \in 1..Len(str2)}
       IN  /\ matrix' = fed.matrix
           /\ steps' = fed.steps
           /\ charmatrix' = [p \in (DOMAIN charmatrix) \cup looked |->
                                Get(charmatrix, p, Param(kwargs, "substitutionscore"))]
    /\ pc' = "done"
    /\ UNCHANGED <<fn, arg1, arg2, kwargs, str1, str2,
                   previous_row, pos, i, j, path, ret, err>>
    /\ UNCHANGED <<calls, lookupVars>>
    /\ UNCHANGED hocrVars

\* a call of full_edit_distance, from binding to "return matrix, steps"
FullEditDistanceCall ==
    /\ pc = "call"
    /\ fn = "full_edit_distance"
    /\ LET fed == full_edit_distance(str1, str2,
                                     Param(kwargs, "substitutionscore"),
                                     Param(kwargs, "insertscore"),
                                     Param(kwargs, "deletescore"),
                                     charmatrix)
       IN  /\ matrix' = fed.matrix
           /\ steps' = fed.steps
    /\ pc' = "done"
    /\ UNCHANGED <<fn, arg1, arg2, kwargs, charmatrix, str1, str2,
                   previous_row, pos, i, j, path, ret, err>>
    /\ UNCHANGED <<calls, lookupVars>>
    /\ UNCHANGED hocrVars

\* align up to the loop: the matrices, the empty path and the start cell
AlignCall ==
    /\ pc = "call"
    /\ fn = "align"
    /\ LET fed == full_edit_distance(str1, str2,
                                     Param(kwargs, "substitutionscore"),
                                     Param(kwargs, "insertscore"),
                                     Param(kwargs, "deletescore"),
                                     charmatrix)
       IN  /\ matrix' = fed.matrix
           /\ steps' = fed.steps
    /\ path' = <<>>
    /\ i' = Len(str1)
    /\ j' = Len(str2)
    /\ pc' = "backtrace"
    /\ UNCHANGED <<fn, arg1, arg2, kwargs, charmatrix, str1, str2,
                   previous_row, pos, ret, err>>
    /\ UNCHANGED <<calls, lookupVars>>
    /\ UNCHANGED hocrVars

\* AlignStep appending to the path instead of inserting at the front
AlignStepAppend ==
    /\ pc = "backtrace"
    /\ steps[i][j] # ""
    /\ path' = Append(path, steps[i][j])
    /\ i' = i + key(steps[i][j])[1]
    /\ j' = j + key(steps[i][j])[2]
    /\ UNCHANGED <<fn, arg1, arg2, kwargs, charmatrix, pc, str1, str2,
                   previous_row, pos, matrix, steps, ret, err>>
    /\ UNCHANGED <<calls, lookupVars>>
    /\ UNCHANGED hocrVars

\* one iteration of "while steps[i,j] != ''"
AlignStep ==
    /\ pc = "backtrace"
    /\ steps[i][j] # ""
    /\ path' = <<steps[i][j]>> \o path
    /\ i' = i + key(steps[i][j])[1]
    /\ j' = j + key(steps[i][j])[2]
    /\ UNCHANGED <<fn, arg1, arg2, kwargs, charmatrix, pc, str1, str2,
                   previous_row, pos, matrix, steps, ret, err>>
    /\ UNCHANGED <<calls, lookupVars>>
    /\ UNCHANGED hocrVars

\* return path
AlignReturn ==
    /\ pc = "backtrace"
    /\ steps[i][j] = ""
    /\ pc' = "done"
    /\ UNCHANGED <<fn, arg1, arg2, kwargs, charmatrix, str1, str2,
                   previous_row, pos, matrix, steps, i, j, path, ret, err>>
    /\ UNCHANGED <<calls, lookupVars>>
    /\ UNCHANGED hocrVars

\* the caller calls full_edit_distance or align once more with the same
\* arguments and the same mapping object (the shared default {} included)
CallAgain ==
    /\ pc = "done"
    /\ fn \in {"full_edit_distance", "align"}
    /\ calls < MaxCalls
    /\ fn' \in {"full_edit_distance", "align"}
    /\ calls' = calls + 1
    /\ pc' = "call"
    /\ str1' = arg1
    /\ str2' = arg2
    /\ matrix' = <<>>
    /\ steps' = <<>>
    /\ i' = 0
    /\ j' = 0
    /\ path' = <<>>
    /\ UNCHANGED <<arg1, arg2, kwargs, charmatrix, previous_row, pos, ret, err>>
    /\ UNCHANGED lookupVars
    /\ UNCHANGED hocrVars

Next ==
    \/ EditDistanceBind
    \/ EditDistanceSwap
    \/ EditDistanceEmpty
    \/ EditDistanceInit
    \/ EditDistanceRow
    \/ EditDistanceReturn
    \/ FullEditDistanceCall
    \/ AlignCall
    \/ AlignStep
    \/ AlignReturn
    \/ CallAgain

Spec == Init /\ [][Next]_vars

TypeOK ==
    /\ fn \in {"edit_distance", "full_edit_distance", "align"}
    /\ pc \in {"call", "loop", "backtrace", "done", "raised"}
    /\ err \in {"", "TypeError"}
    /\ ret \in Int

-----------------------------------------------------------------------------
(* Reference notions the properties are stated with.                       *)

Min3(x, y, z) == Min(x, Min(y, z))

\* Levenshtein distance: the least number of unit-cost insertions, deletions
\* and substitutions turning a into b, by cases on the last units.
RECURSIVE Levenshtein(_, _)
Levenshtein(a, b) ==
    IF Len(a) = 0 THEN Len(b)
    ELSE IF Len(b) = 0 THEN Len(a)
    ELSE LET fa == SubSeq(a, 1, Len(a) - 1)
             fb == SubSeq(b, 1, Len(b) - 1)
         IN  Min3(Levenshtein(fa, b) + 1,
                  Levenshtein(a, fb) + 1,
                  Levenshtein(fa, fb) + (IF a[Len(a)] = b[Len(b)] THEN 0 ELSE 1))

Returned(f) == fn = f /\ pc = "done"

DefaultCosts == kwargs = EmptyMap /\ charmatrix = EmptyMap

\* C1: edit_distance(a, b) returns the Levenshtein distance of a and b.
C1_EditDistanceIsLevenshtein ==
    Returned("edit_distance") => ret = Levenshtein(arg1, arg2)

\* C2: under default costs the bottom-right cell of the scoring matrix of
\* full_edit_distance(a, b) equals edit_distance(a, b).
C2_BottomRightEqualsEditDistance ==
    Returned("edit_distance") =>
        ret = full_edit_distance(arg1, arg2, DefaultScore, DefaultScore,
                                 DefaultScore, EmptyMap).matrix[Len(arg1)][Len(arg2)]

\* C3: edit_distance(a, b) = edit_distance(b, a), also for equal lengths.
C3_EditDistanceSymmetric ==
    Returned("edit_distance") => ret = edit_distance(arg2, arg1)

\* C4: edit_distance(s, s) = 0, and edit_distance of the empty sequence and
\* X, in either order, is len(X); for characters and words alike.
C4_EqualAndEmpty ==
    (Returned("edit_distance") /\ kwargs = EmptyMap) =>
        /\ arg1 = arg2 => ret = 0
        /\ arg1 = <<>> => ret = Len(arg2)
        /\ arg2 = <<>> => ret = Len(arg1)

C4_Witness ==
    /\ Returned("edit_distance")
    /\ arg1 = arg2
    /\ Len(arg1) >= 3
    /\ "the" \in {arg1[k] : k \in 1..Len(arg1)}
    /\ ret = 0

\* C5: under default costs every cell matrix[r][c] of full_edit_distance is
\* the least edit cost from the first r units of seq1 to the first c units
\* of seq2.
C5_CellsAreMinimalCosts ==
    (Returned("full_edit_distance") /\ DefaultCosts) =>
        \A r \in 0..Len(arg1) : \A c \in 0..Len(arg2) :
            matrix[r][c] = Levenshtein(SubSeq(arg1, 1, r), SubSeq(arg2, 1, c))

C5_Witness ==
    /\ Returned("full_edit_distance")
    /\ DefaultCosts
    /\ Len(arg1) = 3
    /\ Len(arg2) = 2
    /\ matrix[3][2] = 2
    /\ matrix[2][2] = 1

\* the output of applying the operations ops to a from left to right, taking
\* the units 's' and 'i' emit from b; ok is FALSE when an operation has no
\* unit left to work on or 'm' meets two different units
RECURSIVE Replay(_, _, _, _, _)
Replay(ops, a, b, used, out) ==
    IF ops = <<>> THEN [ok |-> TRUE, used |-> used, out |-> out]
    ELSE LET op == Head(ops)
             rest == Tail(ops)
             hasA == used < Len(a)
             hasB == Len(out) < Len(b)
             failed == [ok |-> FALSE, used |-> used, out |-> out]
         IN  CASE op = "m" ->
                    IF hasA /\ hasB /\ a[used + 1] = b[Len(out) + 1]
                    THEN Replay(rest, a, b, used + 1, Append(out, a[used + 1]))
                    ELSE failed
               [] op = "s" ->
                    IF hasA /\ hasB
                    THEN Replay(rest, a, b, used + 1, Append(out, b[Len(out) + 1]))
                    ELSE failed
               [] op = "i" ->
                    IF hasB
                    THEN Replay(rest, a, b, used, Append(out, b[Len(out) + 1]))
                    ELSE failed
               [] op = "d" ->
                    IF hasA THEN Replay(rest, a, b, used + 1, out) ELSE failed
               [] OTHER -> failed

OpsOf(p) == {p[k] : k \in 1..Len(p)}

\* C6: replaying align(a, b) from left to right consumes a entirely and
\* produces exactly b.
C6_ReplayReconstructs ==
    Returned("align") =>
        LET played == Replay(path, arg1, arg2, 0, <<>>)
        IN  played.ok /\ played.used = Len(arg1) /\ played.out = arg2

C6_Witness ==
    /\ Returned("align")
    /\ arg1 # arg2
    /\ Cardinality(OpsOf(path)) >= 3
    /\ Replay(path, arg1, arg2, 0, <<>>).out = arg2

\* the sum of the scores of the operations of p, 'm' counting 0
RECURSIVE PathCost(_, _, _, _)
PathCost(p, sub, ins, del) ==
    IF p = <<>> THEN 0
    ELSE (CASE Head(p) = "s" -> sub
            [] Head(p) = "i" -> ins
            [] Head(p) = "d" -> del
            [] OTHER -> 0) + PathCost(Tail(p), sub, ins, del)

\* C7: for scalar scores without overrides, the scores of the operations of
\* align(a, b) sum to the bottom-right cell of the scoring matrix.
C7_PathRealizesDistance ==
    (Returned("align") /\ charmatrix = EmptyMap) =>
        PathCost(path, Param(kwargs, "substitutionscore"),
                 Param(kwargs, "insertscore"), Param(kwargs, "deletescore"))
            = matrix[Len(arg1)][Len(arg2)]

C7_Witness ==
    /\ Returned("align")
    /\ charmatrix = EmptyMap
    /\ Param(kwargs, "substitutionscore") = -7
    /\ Param(kwargs, "deletescore") = 2
    /\ {"s", "d"} \subseteq OpsOf(path)
    /\ matrix[Len(arg1)][Len(arg2)] = -5

\* the three candidate costs of the interior cell (r, c), from the matrix
CandidateS(r, c) ==
    matrix[r - 1][c - 1]
        + Get(charmatrix, <<arg1[r], arg2[c]>>, Param(kwargs, "substitutionscore"))
CandidateI(r, c) ==
    matrix[r][c - 1]
        + Get(charmatrix, <<arg1[r], arg2[c]>>, Param(kwargs, "insertscore"))
CandidateD(r, c) ==
    matrix[r - 1][c]
        + Get(charmatrix, <<arg1[r], arg2[c]>>, Param(kwargs, "deletescore"))

\* C8: at an interior cell whose units differ, among equal minimal
\* candidates substitution is recorded before insertion and insertion
\* before deletion, with the minimal cost.
C8_TieBreakOrder ==
    Returned("full_edit_distance") =>
        \A r \in 1..Len(arg1) : \A c \in 1..Len(arg2) :
            arg1[r] # arg2[c] =>
                LET S == CandidateS(r, c)
                    I == CandidateI(r, c)
                    D == CandidateD(r, c)
                IN  /\ matrix[r][c] = Min3(S, I, D)
                    /\ steps[r][c] = IF S <= I /\ S <= D THEN "s"
                                     ELSE IF I <= D THEN "i" ELSE "d"

C8_Witness ==
    /\ Returned("full_edit_distance")
    /\ \E r \in 1..Len(arg1) : \E c \in 1..Len(arg2) :
          /\ arg1[r] # arg2[c]
          /\ CandidateI(r, c) = CandidateD(r, c)
          /\ CandidateI(r, c) < CandidateS(r, c)
          /\ steps[r][c] = "i"
    /\ \E r \in 1..Len(arg1) : \E c \in 1..Len(arg2) :
          /\ arg1[r] # arg2[c]
          /\ CandidateS(r, c) = CandidateI(r, c)
          /\ CandidateS(r, c) <= CandidateD(r, c)
          /\ steps[r][c] = "s"

\* C9: edit_distance('sitting', 'kitten') = 3,
\* align('sitting', 'kitten') = [s, m, m, m, s, m, d] and
\* align('sunday', 'saturday') = [m, i, i, m, s, m, m, m].
C9_ReferenceExamples ==
    /\ (Returned("edit_distance") /\ arg1 = sitting /\ arg2 = kitten) => ret = 3
    /\ (Returned("align") /\ arg1 = sitting /\ arg2 = kitten) =>
           path = <<"s", "m", "m", "m", "s", "m", "d">>
    /\ (Returned("align") /\ arg1 = sunday /\ arg2 = saturday) =>
           path = <<"m", "i", "i", "m", "s", "m", "m", "m">>

C9_Witness ==
    /\ Returned("align")
    /\ arg1 = sunday
    /\ arg2 = saturday
    /\ Len(path) = 8

Finished(f) == fn = f /\ pc \in {"done", "raised"}

\* C10: edit_distance applies the scores it is passed: for a score c,
\* edit_distance('a', 'b', substitutionscore=c) = c,
\* edit_distance('a', '', deletescore=c) = c and
\* edit_distance('', 'a', insertscore=c) = c.
C10_ScoresApplied ==
    Finished("edit_distance") =>
        /\ (arg1 = <<"a">> /\ arg2 = <<"b">> /\ DOMAIN kwargs = {"substitutionscore"})
               => (err = "" /\ ret = kwargs["substitutionscore"])
        /\ (arg1 = <<"a">> /\ arg2 = <<>> /\ DOMAIN kwargs = {"deletescore"})
               => (err = "" /\ ret = kwargs["deletescore"])
        /\ (arg1 = <<>> /\ arg2 = <<"a">> /\ DOMAIN kwargs = {"insertscore"})
               => (err = "" /\ ret = kwargs["insertscore"])

-----------------------------------------------------------------------------
(* Scores, overrides and the shape of the matrices.                        *)

\* the score the caller asked for: the keyword passed, or 1
Asked(name) == IF name \in DOMAIN kwargs THEN kwargs[name] ELSE 1
SubScore == Asked("substitutionscore")
InsScore == Asked("insertscore")
DelScore == Asked("deletescore")

\* C11: without overrides, full_edit_distance of one-unit sequences [x], [y]
\* with x # y has bottom-right cell min(substitutionscore, insertscore +
\* deletescore); [x] against the empty sequence gives deletescore and the
\* empty sequence against [y] gives insertscore, negative scores included.
C11_ScalarScoresApplied ==
    (Returned("full_edit_distance") /\ charmatrix = EmptyMap) =>
        /\ (Len(arg1) = 1 /\ Len(arg2) = 1 /\ arg1 # arg2) =>
               matrix[1][1] = Min(SubScore, InsScore + DelScore)
        /\ (Len(arg1) = 1 /\ Len(arg2) = 0) => matrix[1][0] = DelScore
        /\ (Len(arg1) = 0 /\ Len(arg2) = 1) => matrix[0][1] = InsScore

C11_Witness ==
    /\ Returned("full_edit_distance")
    /\ charmatrix = EmptyMap
    /\ arg1 = <<"a">>
    /\ arg2 = <<"b">>
    /\ SubScore = 2
    /\ InsScore = -7
    /\ DelScore = 2
    /\ matrix[1][1] = -5

\* cost of deleting unit u and of inserting unit u at the boundary
DeleteCost(u) == Get(charmatrix, <<"", u>>, DelScore)
InsertCost(u) == Get(charmatrix, <<u, "">>, InsScore)

\* C12: column 0 and row 0 are cumulative: matrix[r][0] - matrix[r-1][0] is
\* the deletion cost of unit r of seq1 and matrix[0][c] - matrix[0][c-1] the
\* insertion cost of unit c of seq2, also when units carry different
\* overrides.
C12_BoundaryCumulative ==
    Returned("full_edit_distance") =>
        /\ matrix[0][0] = 0
        /\ \A r \in 1..Len(arg1) :
               matrix[r][0] - matrix[r - 1][0] = DeleteCost(arg1[r])
        /\ \A c \in 1..Len(arg2) :
               matrix[0][c] - matrix[0][c - 1] = InsertCost(arg2[c])

\* C13: at an interior cell whose units differ, each candidate adds the
\* override of the pair when there is one and its own default score
\* otherwise, and the least is stored; so for one-unit sequences x # y with
\* the override (x, y) -> c and default scores the matrix is [[0, 1], [1, c]].
C13_PairOverride ==
    Returned("full_edit_distance") =>
        /\ \A r \in 1..Len(arg1) : \A c \in 1..Len(arg2) :
               arg1[r] # arg2[c] =>
                   LET pair == <<arg1[r], arg2[c]>>
                       overridden == pair \in DOMAIN charmatrix
                       S == matrix[r - 1][c - 1]
                              + (IF overridden THEN charmatrix[pair] ELSE SubScore)
                       I == matrix[r][c - 1]
                              + (IF overridden THEN charmatrix[pair] ELSE InsScore)
                       D == matrix[r - 1][c]
                              + (IF overridden THEN charmatrix[pair] ELSE DelScore)
                   IN  /\ matrix[r][c] \in {S, I, D}
                       /\ matrix[r][c] <= S
                       /\ matrix[r][c] <= I
                       /\ matrix[r][c] <= D
        /\ \A v \in {0, 1, 5} :
               (/\ arg1 = <<"a">>
                /\ arg2 = <<"b">>
                /\ kwargs = EmptyMap
                /\ charmatrix = (<<"a", "b">> :> v)) =>
                   matrix = (0 :> (0 :> 0 @@ 1 :> 1) @@ 1 :> (0 :> 1 @@ 1 :> v))

C13_Witness ==
    /\ Returned("full_edit_distance")
    /\ arg1 = <<"a">>
    /\ arg2 = <<"b">>
    /\ kwargs = EmptyMap
    /\ charmatrix = (<<"a", "b">> :> 5)
    /\ matrix[1][1] = 5

\* C14: no step of align or full_edit_distance changes the override mapping,
\* over any sequence of calls.
C14_MappingUnchanged == [][charmatrix' = charmatrix]_vars

C14_Witness ==
    /\ Returned("align")
    /\ calls = 2
    /\ charmatrix = (<<"a", "b">> :> 0)
    /\ arg1 = <<"a", "a">>
    /\ arg2 = <<"b", "a">>
    /\ path = <<"s", "m">>

\* C15: both matrices have len(seq1)+1 rows and len(seq2)+1 columns,
\* matrix[0][0] = 0, the operation is empty at (0,0) and nowhere else, 'i'
\* in the rest of row 0 and 'd' in the rest of column 0.
C15_Shape ==
    Returned("full_edit_distance") =>
        /\ DOMAIN matrix = 0..Len(arg1)
        /\ DOMAIN steps = 0..Len(arg1)
        /\ \A r \in 0..Len(arg1) :
               /\ DOMAIN matrix[r] = 0..Len(arg2)
               /\ DOMAIN steps[r] = 0..Len(arg2)
        /\ matrix[0][0] = 0
        /\ \A r \in 0..Len(arg1) : \A c \in 0..Len(arg2) :
               /\ steps[r][c] = "" <=> (r = 0 /\ c = 0)
               /\ (r = 0 /\ c > 0) => steps[r][c] = "i"
               /\ (c = 0 /\ r > 0) => steps[r][c] = "d"
        /\ (arg1 = <<>> /\ arg2 = <<>>) => matrix = (0 :> (0 :> 0))

C15_Witness ==
    /\ Returned("full_edit_distance")
    /\ Len(arg1) = 3
    /\ Len(arg2) = 2
    /\ steps[0][2] = "i"
    /\ steps[3][0] = "d"
    /\ steps[0][0] = ""

-----------------------------------------------------------------------------
(* semi_global_align: alignment of seq1 inside the longer seq2.            *)

\* longest sequence passed to semi_global_align
MaxSemiLen == 3

\* row 0 of the semi-global scoring matrix: a prefix of seq2 is skipped for
\* free, the operations are those of the full alignment
semi_first_row(s2) ==
    [c \in 0..Len(s2) |-> [score |-> 0, op |-> IF c = 0 THEN "" ELSE "i"]]

\* rows 0..r of the semi-global matrices
RECURSIVE semi_fill_rows(_, _, _, _, _, _, _)
semi_fill_rows(s1, s2, r, sub, ins, del, cm) ==
    IF r = 0 THEN (0 :> semi_first_row(s2))
    ELSE LET done == semi_fill_rows(s1, s2, r - 1, sub, ins, del, cm)
         IN  done @@ (r :> fill_row(done[r - 1], s1, s2, r, Len(s2),
                                    sub, ins, del, cm))

\* the scoring and operation matrices of the semi-global alignment
semi_global_matrices(s1, s2, sub, ins, del, cm) ==
    LET cells == semi_fill_rows(s1, s2, Len(s1), sub, ins, del, cm)
    IN  [matrix |-> [r \in 0..Len(s1) |-> [c \in 0..Len(s2) |-> cells[r][c].score]],
         steps |-> [r \in 0..Len(s1) |-> [c \in 0..Len(s2) |-> cells[r][c].op]]]

\* start_columns taking the bottom-right cell, as the full alignment does
start_columns_corner(m, n, w) == {w}

\* the columns of the least cells of the last row n of the scoring matrix m,
\* w its last column: the cells the traceback may start from
start_columns(m, n, w) ==
    {c \in 0..w : \A other \in 0..w : m[n][c] <= m[n][other]}

aaaab == <<"a", "a", "a", "a", "b">>
aaaabcccc == <<"a", "a", "a", "a", "b", "c", "c", "c", "c">>
abcde == <<"a", "b", "c", "d", "e">>

InitSemi ==
    /\ fn = "semi_global_align"
    /\ \/ /\ arg1 \in SeqsUpTo(Units, MaxSemiLen)
          /\ arg2 \in SeqsUpTo(Units, MaxSemiLen)
       \/ \E ab \in {<<(<<"b">>), aaaab>>, <<(<<"b">>), aaaabcccc>>,
                     <<abcde, abcde>>, <<aaaab, (<<"b">>)>>,
                     <<(<<"match">>), (<<"w1", "w2", "match">>)>>} :
             arg1 = ab[1] /\ arg2 = ab[2]
    /\ kwargs = EmptyMap
    /\ charmatrix = EmptyMap
    /\ pc = "call"
    /\ str1 = arg1
    /\ str2 = arg2
    /\ previous_row = <<>>
    /\ pos = 0
    /\ matrix = <<>>
    /\ steps = <<>>
    /\ i = 0
    /\ j = 0
    /\ path = <<>>
    /\ ret = 0
    /\ err = ""
    /\ calls = 1
    /\ NoLookup
    /\ NoHocr

\* SemiGlobalAlignRaise exchanging the two sequences instead of failing
SemiGlobalAlignSwap ==
    /\ pc = "call"
    /\ fn = "semi_global_align"
    /\ Len(str1) > Len(str2)
    /\ str1' = str2
    /\ str2' = str1
    /\ UNCHANGED <<fn, pc, err, arg1, arg2, kwargs, charmatrix,
                   previous_row, pos, matrix, steps, i, j, path, ret, calls>>
    /\ UNCHANGED lookupVars
    /\ UNCHANGED hocrVars

\* the first sequence is longer than the second: the call fails
SemiGlobalAlignRaise ==
    /\ pc = "call"
    /\ fn = "semi_global_align"
    /\ Len(str1) > Len(str2)
    /\ pc' = "raised"
    /\ err' = "NidabaAlgorithmException"
    /\ UNCHANGED <<fn, arg1, arg2, kwargs, charmatrix, str1, str2,
                   previous_row, pos, matrix, steps, i, j, path, ret, calls>>
    /\ UNCHANGED lookupVars
    /\ UNCHANGED hocrVars

\* the matrices, the empty path and a least cell of the last row to start at
SemiGlobalAlignCall ==
    /\ pc = "call"
    /\ fn = "semi_global_align"
    /\ Len(str1) <= Len(str2)
    /\ LET sga == semi_global_matrices(str1, str2,
                                       Param(kwargs, "substitutionscore"),
                                       Param(kwargs, "insertscore"),
                                       Param(kwargs, "deletescore"),
                                       charmatrix)
       IN  /\ matrix' = sga.matrix
           /\ steps' = sga.steps
           /\ j' \in start_columns(sga.matrix, Len(str1), Len(str2))
    /\ i' = Len(str1)
    /\ path' = <<>>
    /\ pc' = "backtrace"
    /\ UNCHANGED <<fn, err, arg1, arg2, kwargs, charmatrix, str1, str2,
                   previous_row, pos, ret, calls>>
    /\ UNCHANGED lookupVars
    /\ UNCHANGED hocrVars

NextSemi ==
    \/ SemiGlobalAlignRaise
    \/ SemiGlobalAlignCall
    \/ AlignStep
    \/ AlignReturn

SpecSemi == InitSemi /\ [][NextSemi]_vars

\* C16: semi_global_align with a first sequence longer than the second fails
\* with the algorithm-usage error, returns nothing and does not swap.
C16_LongerFirstFails ==
    (fn = "semi_global_align" /\ Len(arg1) > Len(arg2)) =>
        /\ pc \in {"call", "raised"}
        /\ pc = "raised" => err = "NidabaAlgorithmException"
        /\ path = <<>>
        /\ str1 = arg1
        /\ str2 = arg2

C16_Witness ==
    /\ fn = "semi_global_align"
    /\ pc = "raised"
    /\ err = "NidabaAlgorithmException"
    /\ arg1 = <<"the", "a", "the">>
    /\ arg2 = <<"the">>

\* the column the traceback of the returned path started from
StartOf(p) == Cardinality({q \in 1..Len(p) : p[q] \in {"m", "s", "i"}})

\* C17: for len(seq1) <= len(seq2) row 0 of the scoring matrix is zero and
\* the traceback starts at a least cell of the last row, so
\* semi_global_align('b', 'aaaab') = semi_global_align('b', 'aaaabcccc')
\* = [i, i, i, i, m] and identical sequences of length n give n matches.
C17_StartsAtLeastCell ==
    Returned("semi_global_align") =>
        /\ Len(arg1) <= Len(arg2)
        /\ \A c \in 0..Len(arg2) : matrix[0][c] = 0
        /\ \A c \in 0..Len(arg2) :
               matrix[Len(arg1)][StartOf(path)] <= matrix[Len(arg1)][c]
        /\ (arg1 = <<"b">> /\ arg2 \in {aaaab, aaaabcccc}) =>
               path = <<"i", "i", "i", "i", "m">>
        /\ arg1 = arg2 => path = [q \in 1..Len(arg1) |-> "m"]

C17_Witness ==
    /\ Returned("semi_global_align")
    /\ arg1 = <<"b">>
    /\ arg2 = aaaabcccc
    /\ path = <<"i", "i", "i", "i", "m">>

-----------------------------------------------------------------------------
(* mmap_bin_search: binary search over the byte offsets of a sorted,       *)
(* newline-delimited dictionary file.  Text is a sequence of code points.  *)

\* most lines of a dictionary file
MaxLines == 3
\* '\t' and '\n'
TAB == 9
NL == 10

\* the keys of the sample dictionaries: a, aa, ab, b, ba, bb
KeyUniverse == {<<97>>, <<97, 97>>, <<97, 98>>, <<98>>, <<98, 97>>, <<98, 98>>}

\* a < b for two strings: code point by code point, a proper prefix first
RECURSIVE LexLess(_, _)
LexLess(a, b) ==
    IF b = <<>> THEN FALSE
    ELSE IF a = <<>> THEN TRUE
    ELSE IF a[1] # b[1] THEN a[1] < b[1]
    ELSE LexLess(Tail(a), Tail(b))

\* the strings of the set S in ascending order
RECURSIVE Sorted(_)
Sorted(S) ==
    IF S = {} THEN <<>>
    ELSE LET least == CHOOSE x \in S : \A y \in S \ {x} : LexLess(x, y)
         IN  <<least>> \o Sorted(S \ {least})

\* the value stored with a key: 'v', a space and the key
ValueOf(k) == <<118, 32>> \o k

Parsers == {"key_for_del_dict_entry", "key_for_single_word"}

\* the line of a key: key<TAB>value, or the bare key
LineOf(k, format) ==
    IF format = "key_for_del_dict_entry" THEN k \o <<TAB>> \o ValueOf(k) ELSE k

\* the lines joined by newlines, with or without a newline after the last
RECURSIVE Joined(_, _, _)
Joined(ks, format, trailing) ==
    IF ks = <<>> THEN <<>>
    ELSE IF Len(ks) = 1
         THEN LineOf(ks[1], format) \o (IF trailing THEN <<NL>> ELSE <<>>)
    ELSE LineOf(ks[1], format) \o <<NL>> \o Joined(Tail(ks), format, trailing)

\* the sorted dictionary files of up to MaxLines lines
Files ==
    {Joined(Sorted(S), format, trailing) :
        S \in {T \in SUBSET KeyUniverse : Cardinality(T) \in 1..MaxLines},
        format \in Parsers, trailing \in BOOLEAN}

\* prev_newline counting a newline at the offset itself as preceding it
prev_newline_inclusive(m, offset) ==
    LET starts == {q \in 0..Min(offset + 1, Len(m)) : q = 0 \/ m[q] = NL}
    IN  CHOOSE q \in starts : \A other \in starts : other <= q

\* start of the line containing the byte at offset: the offset right after
\* the nearest newline before offset, or 0 (offsets count from 0, so the
\* byte at offset q - 1 is m[q])
prev_newline(m, offset) ==
    LET starts == {q \in 0..offset : q = 0 \/ m[q] = NL}
    IN  CHOOSE q \in starts : \A other \in starts : other <= q

\* the line starting at offset start, without its newline
readline(m, start) ==
    LET ends == {q \in start..Len(m) : q = Len(m) \/ m[q + 1] = NL}
        end == CHOOSE q \in ends : \A other \in ends : q <= other
    IN  SubSeq(m, start + 1, end)

\* key<TAB>value: the key and the rest of the line, spaces included; a line
\* without a tab does not parse
key_for_del_dict_entry(line) ==
    LET tabs == {q \in 1..Len(line) : line[q] = TAB}
    IN  IF tabs = {} THEN [ok |-> FALSE, key |-> <<>>, value |-> <<>>]
        ELSE LET t == CHOOSE q \in tabs : \A other \in tabs : q <= other
             IN  [ok |-> TRUE, key |-> SubSeq(line, 1, t - 1),
                  value |-> SubSeq(line, t + 1, Len(line))]

\* a bare word is its own key and value
key_for_single_word(line) == [ok |-> TRUE, key |-> line, value |-> line]

parse(parser, line) ==
    IF parser = "key_for_del_dict_entry" THEN key_for_del_dict_entry(line)
    ELSE key_for_single_word(line)

\* the midpoint offset of the search range
midpoint(lo, hi) == lo + ((hi - lo) \div 2)

\* the entry of the line the probe of the range lo..hi lands in
probe(m, parser, lo, hi) ==
    parse(parser, readline(m, prev_newline(m, midpoint(lo, hi))))

InitSearch ==
    /\ fn = "mmap_bin_search"
    /\ pc = "call"
    /\ err = ""
    /\ arg1 = <<>>
    /\ arg2 = <<>>
    /\ kwargs = EmptyMap
    /\ charmatrix = EmptyMap
    /\ str1 = <<>>
    /\ str2 = <<>>
    /\ previous_row = <<>>
    /\ pos = 0
    /\ matrix = <<>>
    /\ steps = <<>>
    /\ i = 0
    /\ j = 0
    /\ path = <<>>
    /\ ret = 0
    /\ calls = 1
    /\ dmap \in Files
    /\ word \in KeyUniverse
    /\ entryparser \in Parsers
    /\ imin = 0
    /\ imax = 0
    /\ dels = 0
    /\ string = <<>>
    /\ result = <<>>
    /\ found = FALSE
    /\ NoHocr

\* the file is mapped and the range is the whole file
MmapBinSearchOpen ==
    /\ pc = "call"
    /\ fn = "mmap_bin_search"
    /\ imin' = 0
    /\ imax' = Len(dmap)
    /\ pc' = "search"
    /\ UNCHANGED <<fn, err, alignVars, dmap, word, entryparser, dels, string,
                   result, found>>
    /\ UNCHANGED hocrVars

\* the probed line has the key: its value is returned
MmapBinSearchHit ==
    /\ pc = "search"
    /\ imin < imax
    /\ LET e == probe(dmap, entryparser, imin, imax)
       IN  /\ e.ok
           /\ e.key = word
           /\ result' = e.value
    /\ found' = TRUE
    /\ pc' = "done"
    /\ UNCHANGED <<fn, err, alignVars, dmap, word, entryparser, imin, imax,
                   dels, string>>
    /\ UNCHANGED hocrVars

\* the probed key is less than the key: the range continues after the midpoint
MmapBinSearchRight ==
    /\ pc = "search"
    /\ imin < imax
    /\ LET e == probe(dmap, entryparser, imin, imax)
       IN  /\ e.ok
           /\ LexLess(e.key, word)
    /\ imin' = midpoint(imin, imax) + 1
    /\ UNCHANGED <<fn, pc, err, alignVars, dmap, word, entryparser, imax,
                   dels, string, result, found>>
    /\ UNCHANGED hocrVars

\* the probed key is greater than the key: the range ends at the midpoint
MmapBinSearchLeft ==
    /\ pc = "search"
    /\ imin < imax
    /\ LET e == probe(dmap, entryparser, imin, imax)
       IN  /\ e.ok
           /\ LexLess(word, e.key)
    /\ imax' = midpoint(imin, imax)
    /\ UNCHANGED <<fn, pc, err, alignVars, dmap, word, entryparser, imin,
                   dels, string, result, found>>
    /\ UNCHANGED hocrVars

\* the probed line lacks the separator of the parser: the lookup fails
MmapBinSearchMalformed ==
    /\ pc = "search"
    /\ imin < imax
    /\ ~ probe(dmap, entryparser, imin, imax).ok
    /\ pc' = "raised"
    /\ err' = "ParseError"
    /\ UNCHANGED <<fn, alignVars, lookupVars>>
    /\ UNCHANGED hocrVars

\* the range is empty: the key is absent and None is returned
MmapBinSearchMiss ==
    /\ pc = "search"
    /\ imin >= imax
    /\ found' = FALSE
    /\ result' = <<>>
    /\ pc' = "done"
    /\ UNCHANGED <<fn, err, alignVars, dmap, word, entryparser, imin, imax,
                   dels, string>>
    /\ UNCHANGED hocrVars

NextSearch ==
    \/ MmapBinSearchOpen
    \/ MmapBinSearchHit
    \/ MmapBinSearchRight
    \/ MmapBinSearchLeft
    \/ MmapBinSearchMalformed
    \/ MmapBinSearchMiss

SpecSearch == InitSearch /\ [][NextSearch]_vars

\* the lines of a file: the text from each line start (the start of the
\* file and the position after each newline that is not the last byte) up
\* to the next newline or the end of the file
LinesOf(m) ==
    LET starts == {q \in 1..Len(m) : q = 1 \/ m[q - 1] = NL}
        stop(q) == CHOOSE e \in q..(Len(m) + 1) :
                       /\ e = Len(m) + 1 \/ m[e] = NL
                       /\ \A o \in q..(e - 1) : m[o] # NL
    IN  {SubSeq(m, q, stop(q) - 1) : q \in starts}

\* every line of m from position at on has a tab (seen: the line at has one)
RECURSIVE EveryLineHasTab(_, _, _)
EveryLineHasTab(m, at, seen) ==
    IF at > Len(m) THEN seen \/ Len(m) = 0 \/ m[Len(m)] = NL
    ELSE IF m[at] = NL THEN seen /\ EveryLineHasTab(m, at + 1, FALSE)
    ELSE EveryLineHasTab(m, at + 1, seen \/ m[at] = TAB)

\* every line of the file has the form the parser expects
WellFormed ==
    entryparser = "key_for_del_dict_entry" => EveryLineHasTab(dmap, 1, FALSE)

\* the key and value of a line, read off the line's form
KeyOfLine(l) ==
    IF entryparser = "key_for_single_word" THEN l
    ELSE SubSeq(l, 1, (CHOOSE q \in 1..Len(l) :
                          l[q] = TAB /\ \A o \in 1..(q - 1) : l[o] # TAB) - 1)
ValueOfLine(l) ==
    IF entryparser = "key_for_single_word" THEN l
    ELSE SubSeq(l, Len(KeyOfLine(l)) + 2, Len(l))

\* the lookup has returned what the file holds for the key
RightAnswer ==
    /\ pc = "done"
    /\ \A l \in LinesOf(dmap) :
           KeyOfLine(l) = word => (found /\ result = ValueOfLine(l))
    /\ (\A l \in LinesOf(dmap) : KeyOfLine(l) # word) => (~found /\ result = <<>>)

\* a lookup of a well-formed file is inside its loop
Searching == fn = "mmap_bin_search" /\ pc = "search" /\ WellFormed

\* C18: on a sorted file mmap_bin_search terminates, returning the value of
\* the line whose key is the key searched (first, last or only line, with or
\* without a final newline) and None, not an error, for an absent key: the
\* loop can always take a step, and each step either returns the right
\* answer or leaves a strictly smaller range of offsets.
C18_SearchFindsEveryKey ==
    /\ [](Searching => ENABLED NextSearch)
    /\ [][Searching =>
             \/ RightAnswer'
             \/ /\ pc' = "search"
                /\ 0 <= imax' - imin'
                /\ imax' - imin' < imax - imin]_vars

C18_Witness ==
    /\ fn = "mmap_bin_search"
    /\ pc = "done"
    /\ found
    /\ entryparser = "key_for_del_dict_entry"
    /\ word = <<98, 98>>
    /\ result = <<118, 32, 98, 98>>
    /\ dmap = <<97, TAB, 118, 32, 97, NL,
                97, 98, TAB, 118, 32, 97, 98, NL,
                98, 98, TAB, 118, 32, 98, 98>>

-----------------------------------------------------------------------------
(* strings_by_deletion: the deletion variants of a word (SymSpell).        *)

\* longest sample word
MaxWordLen == 3
\* most deletions asked of a sample word
MaxDels == 4

WordChars == {97, 98, 101}
\* 'abcde', 'ape' and 'aaa'
word_abcde == <<97, 98, 99, 100, 101>>
word_ape == <<97, 112, 101>>
word_aaa == <<97, 97, 97>>

\* the ways of choosing n of the positions of w
combinations(w, n) == {c \in SUBSET (1..Len(w)) : Cardinality(c) = n}

\* w without the characters at the positions in c
RECURSIVE without(_, _, _)
without(w, c, at) ==
    IF at > Len(w) THEN <<>>
    ELSE (IF at \in c THEN <<>> ELSE <<w[at]>>) \o without(w, c, at + 1)

\* the variants of every deletion count from 1 up to n, in one sorted list
strings_by_deletion_upto(w, n) ==
    Sorted({without(w, c, 1) :
               c \in {c \in SUBSET (1..Len(w)) :
                         Cardinality(c) \in 1..n}})

\* the set of the strings left by each choice of n positions, sorted
strings_by_deletion(w, n) ==
    Sorted({without(w, c, 1) : c \in combinations(w, n)})

InitDeletion ==
    /\ fn = "strings_by_deletion"
    /\ pc = "call"
    /\ err = ""
    /\ arg1 = <<>>
    /\ arg2 = <<>>
    /\ kwargs = EmptyMap
    /\ charmatrix = EmptyMap
    /\ str1 = <<>>
    /\ str2 = <<>>
    /\ previous_row = <<>>
    /\ pos = 0
    /\ matrix = <<>>
    /\ steps = <<>>
    /\ i = 0
    /\ j = 0
    /\ path = <<>>
    /\ ret = 0
    /\ calls = 1
    /\ dmap = <<>>
    /\ word \in SeqsUpTo(WordChars, MaxWordLen) \cup {word_abcde, word_ape, word_aaa}
    /\ entryparser = ""
    /\ imin = 0
    /\ imax = 0
    /\ dels \in (0..MaxDels) \cup {10}
    /\ string = <<>>
    /\ result = <<>>
    /\ found = FALSE
    /\ NoHocr

StringsByDeletionCall ==
    /\ pc = "call"
    /\ fn = "strings_by_deletion"
    /\ result' = strings_by_deletion(word, dels)
    /\ pc' = "done"
    /\ UNCHANGED <<fn, err, alignVars, dmap, word, entryparser, imin, imax,
                   dels, string, found>>
    /\ UNCHANGED hocrVars

NextDeletion == StringsByDeletionCall

SpecDeletion == InitDeletion /\ [][NextDeletion]_vars

\* s can be read in w from left to right, skipping characters of w
RECURSIVE IsSubsequence(_, _)
IsSubsequence(s, w) ==
    IF s = <<>> THEN TRUE
    ELSE IF w = <<>> THEN FALSE
    ELSE IF s[1] = w[1] THEN IsSubsequence(Tail(s), Tail(w))
    ELSE IsSubsequence(s, Tail(w))

\* the strings of length n over the characters of w
StringsOver(w, n) == [1..n -> {w[q] : q \in 1..Len(w)}]

\* C19: strings_by_deletion(word, k) lists, without duplicates and in
\* ascending order, exactly the strings left when k characters of word are
\* deleted; ('abcde', 1) gives abcd, abce, abde, acde, bcde; ('ape', 2)
\* gives a, e, p; and when k exceeds len(word) the list is empty.
C19_DeletionVariants ==
    (fn = "strings_by_deletion" /\ pc = "done") =>
        /\ \A a, b \in 1..Len(result) : a < b => LexLess(result[a], result[b])
        /\ dels > Len(word) => result = <<>>
        /\ dels <= Len(word) =>
               \A s \in StringsOver(word, Len(word) - dels) :
                   IsSubsequence(s, word) <=> (\E a \in 1..Len(result) : result[a] = s)
        /\ \A a \in 1..Len(result) : Len(result[a]) = Len(word) - dels
        /\ (word = word_abcde /\ dels = 1) =>
               result = << <<97, 98, 99, 100>>, <<97, 98, 99, 101>>,
                           <<97, 98, 100, 101>>, <<97, 99, 100, 101>>,
                           <<98, 99, 100, 101>> >>
        /\ (word = word_ape /\ dels = 2) => result = << <<97>>, <<101>>, <<112>> >>

C19_Witness ==
    /\ fn = "strings_by_deletion"
    /\ pc = "done"
    /\ word = word_ape
    /\ dels = 2
    /\ result = << <<97>>, <<101>>, <<112>> >>

-----------------------------------------------------------------------------
(* The Greek code-point ranges, greek_chars and greek_filter.              *)

\* longest sample string given to greek_filter
MaxStringLen == 2

\* ord of the range ends
U0370 == 880
U03FF == 1023
U1F00 == 7936
U1FFF == 8191
U0300 == 768
U0360 == 864

\* Python's range(lo, hi): lo, lo + 1, ..., hi - 1
range(lo, hi) == [q \in 1..(IF hi > lo THEN hi - lo ELSE 0) |-> lo + q - 1]

\* the range without its last code point
greek_and_coptic_range_half_open == range(U0370, U03FF)

greek_and_coptic_range == range(U0370, U03FF + 1)

extended_greek_range == range(U1F00, U1FFF + 1)

\* the range running on into the first code point of Greek and Coptic
combining_diacritical_mark_range_overlapping == range(U0300, U0370 + 1)

combining_diacritical_mark_range == range(U0300, U0360 + 1)

\* the list without the loop over extended_greek_range
greek_chars_without_extended ==
    greek_and_coptic_range \o combining_diacritical_mark_range

\* the characters of the three ranges, in the order they are appended
greek_chars ==
    greek_and_coptic_range \o extended_greek_range
        \o combining_diacritical_mark_range

\* list.__contains__
contains(list, c) == \E q \in 1..Len(list) : list[q] = c

\* filter(f, string): the characters of string that f accepts, in order
RECURSIVE greek_filter(_)
greek_filter(s) ==
    IF s = <<>> THEN <<>>
    ELSE (IF contains(greek_chars, s[1]) THEN <<s[1]>> ELSE <<>>)
             \o greek_filter(Tail(s))

\* 'a' and the code points at and next to the ends of the ranges and of the
\* Combining Diacritical Marks block
SampleCodePoints ==
    {97, 767, 768, 864, 865, 879, 880, 1023, 1024, 7935, 7936, 8191, 8192}

InitGreek ==
    /\ fn = "greek_filter"
    /\ pc = "call"
    /\ err = ""
    /\ arg1 = <<>>
    /\ arg2 = <<>>
    /\ kwargs = EmptyMap
    /\ charmatrix = EmptyMap
    /\ str1 = <<>>
    /\ str2 = <<>>
    /\ previous_row = <<>>
    /\ pos = 0
    /\ matrix = <<>>
    /\ steps = <<>>
    /\ i = 0
    /\ j = 0
    /\ path = <<>>
    /\ ret = 0
    /\ calls = 1
    /\ dmap = <<>>
    /\ word = <<>>
    /\ entryparser = ""
    /\ imin = 0
    /\ imax = 0
    /\ dels = 0
    /\ string \in SeqsUpTo(SampleCodePoints, MaxStringLen)
    /\ result = <<>>
    /\ found = FALSE
    /\ NoHocr

GreekFilterCall ==
    /\ pc = "call"
    /\ fn = "greek_filter"
    /\ result' = greek_filter(string)
    /\ pc' = "done"
    /\ UNCHANGED <<fn, err, alignVars, dmap, word, entryparser, imin, imax,
                   dels, string, found>>
    /\ UNCHANGED hocrVars

NextGreek == GreekFilterCall

SpecGreek == InitGreek /\ [][NextGreek]_vars

\* the Combining Diacritical Marks block of Unicode, U+0300..U+036F
CombiningDiacriticalMarks == 768..879

Elements(list) == {list[q] : q \in 1..Len(list)}

\* C20: combining_diacritical_mark_range is exactly the Combining
\* Diacritical Marks block U+0300..U+036F, so every mark of the block is in
\* greek_chars and greek_filter keeps it.
C20_CombiningBlockKept ==
    (fn = "greek_filter" /\ pc = "done") =>
        /\ Elements(combining_diacritical_mark_range) = CombiningDiacriticalMarks
        /\ CombiningDiacriticalMarks \subseteq Elements(greek_chars)
        /\ \A q \in 1..Len(string) :
               string[q] \in CombiningDiacriticalMarks =>
                   string[q] \in Elements(result)

\* the code points of each range, as sets
GreekAndCopticSet == Elements(greek_and_coptic_range)
ExtendedGreekSet == Elements(extended_greek_range)
CombiningSet == Elements(combining_diacritical_mark_range)

\* C21: both ends of a range belong to it: greek_and_coptic_range is
\* U+0370..U+03FF (880..1023) without U+036F and U+0400,
\* extended_greek_range is U+1F00..U+1FFF (7936..8191) without U+1EFF and
\* U+2000; greek_filter keeps the end points and drops U+0400, U+1EFF, U+2000.
C21_RangesInclusive ==
    (fn = "greek_filter" /\ pc = "done") =>
        /\ GreekAndCopticSet = 880..1023
        /\ ExtendedGreekSet = 7936..8191
        /\ \A q \in 1..Len(string) :
               /\ string[q] \in {880, 1023, 7936, 8191} =>
                      string[q] \in Elements(result)
               /\ string[q] \in {1024, 7935, 8192} =>
                      string[q] \notin Elements(result)

C21_Witness ==
    /\ fn = "greek_filter"
    /\ pc = "done"
    /\ string = <<1023, 1024>>
    /\ result = <<1023>>

\* a code point of one of the three ranges
IsGreekCodePoint(c) ==
    c \in GreekAndCopticSet \cup ExtendedGreekSet \cup CombiningSet

Occurrences(c) == Cardinality({q \in 1..Len(greek_chars) : greek_chars[q] = c})

\* the three ranges share no code point, greek_chars is as long as the three
\* together and none of its characters repeats
RangesDisjoint ==
    /\ GreekAndCopticSet \cap ExtendedGreekSet = {}
    /\ GreekAndCopticSet \cap CombiningSet = {}
    /\ ExtendedGreekSet \cap CombiningSet = {}
    /\ Len(greek_chars) = Len(greek_and_coptic_range) + Len(extended_greek_range)
                              + Len(combining_diacritical_mark_range)
    /\ Cardinality(Elements(greek_chars)) = Len(greek_chars)
    /\ Elements(greek_chars) =
           GreekAndCopticSet \cup ExtendedGreekSet \cup CombiningSet

\* C29: the three ranges are pairwise disjoint, so greek_chars holds every
\* code point of the three ranges exactly once and its length is the sum of
\* the three lengths; each character greek_filter keeps occurs once in it.
C29_RangesDisjoint ==
    (fn = "greek_filter" /\ pc = "done") =>
        /\ RangesDisjoint
        /\ \A q \in 1..Len(result) : Occurrences(result[q]) = 1

C29_Witness ==
    /\ fn = "greek_filter"
    /\ pc = "done"
    /\ string = <<864, 880>>
    /\ result = <<864, 880>>

-----------------------------------------------------------------------------
(* The rolling row of edit_distance, the backtrace of align and the        *)
(* operations of full_edit_distance.                                       *)

\* row r of the scoring matrix of full_edit_distance(a, b) with default costs
FullRow(a, b, r) == full_edit_distance(a, b, 1, 1, 1, EmptyMap).matrix[r]

\* C23: after the loop of edit_distance has processed the first i units of
\* the longer sequence, the rolling row is row i of the full default-cost
\* scoring matrix of (longer, shorter).
C23_RollingRowIsFullRow ==
    (fn = "edit_distance" /\ pc = "loop") =>
        \A c \in 0..Len(str2) : previous_row[c] = FullRow(str1, str2, pos)[c]

\* the ranges the cursor of the backtrace may be in
CursorInRange == i \in 0..Len(str1) /\ j \in 0..Len(str2)

Backtracing == fn = "align" /\ pc = "backtrace"

\* C24: the backtrace of align terminates: the cursor (i, j) starts at
\* (len(seq1), len(seq2)), stays within the matrix, i + j strictly decreases
\* at every step, a step can always be taken, and the loop stops exactly
\* when the cursor is at (0, 0).
C24_BacktraceTerminates ==
    /\ [](Backtracing => (CursorInRange /\ ENABLED (AlignStep \/ AlignReturn)))
    /\ [][/\ (fn = "align" /\ pc = "call" /\ pc' = "backtrace") =>
                 (i' = Len(str1) /\ j' = Len(str2))
          /\ Backtracing =>
                 /\ pc' = "done" <=> (i = 0 /\ j = 0)
                 /\ pc' = "backtrace" =>
                        (i' + j' < i + j /\ i' >= 0 /\ j' >= 0)]_vars

C24_Witness ==
    /\ fn = "align"
    /\ pc = "done"
    /\ kwargs = ("deletescore" :> -7)
    /\ arg1 = <<"a", "a">>
    /\ arg2 = <<"a", "b">>
    /\ i = 0
    /\ j = 0
    /\ Len(path) = 4

\* how many operations of p are in the set S
Count(p, S) == Cardinality({q \in 1..Len(p) : p[q] \in S})

Longer(a, b) == IF Len(a) >= Len(b) THEN Len(a) ELSE Len(b)

\* C25: in align(a, b) the operations m, s, d number len(a) and the
\* operations m, s, i number len(b), so the length of the path is
\* len(a) + len(b) less the number of m and s, between max(len(a), len(b))
\* and len(a) + len(b).
C25_PathLength ==
    Returned("align") =>
        /\ Count(path, {"m", "s", "d"}) = Len(arg1)
        /\ Count(path, {"m", "s", "i"}) = Len(arg2)
        /\ Len(path) = Len(arg1) + Len(arg2) - Count(path, {"m", "s"})
        /\ Len(path) >= Longer(arg1, arg2)
        /\ Len(path) <= Len(arg1) + Len(arg2)

C25_Witness ==
    /\ Returned("align")
    /\ arg1 = <<"a">>
    /\ arg2 = <<"b">>
    /\ path = <<"d", "i">>

\* the calls of edit_distance alone
InitEditDistance == fn = "edit_distance" /\ Init

NextEditDistance ==
    \/ EditDistanceBind
    \/ EditDistanceSwap
    \/ EditDistanceEmpty
    \/ EditDistanceInit
    \/ EditDistanceRow
    \/ EditDistanceReturn

SpecEditDistance == InitEditDistance /\ [][NextEditDistance]_vars

\* the row of distances after unit u, from the row before it, cell by cell
\* from left to right; acc holds the cells 0..c-1 (cell c is at index c + 1)
RECURSIVE DistanceRow(_, _, _, _, _)
DistanceRow(before, u, b, c, acc) ==
    IF c > Len(b) THEN acc
    ELSE DistanceRow(before, u, b, c + 1,
                     Append(acc, Min3(before[c + 1] + 1,
                                      acc[c] + 1,
                                      before[c] + (IF u = b[c] THEN 0 ELSE 1))))

\* the distances of the first r units of a to each prefix of b
RECURSIVE DistanceRows(_, _, _)
DistanceRows(a, b, r) ==
    IF r = 0 THEN [c \in 1..(Len(b) + 1) |-> c - 1]
    ELSE LET before == DistanceRows(a, b, r - 1)
         IN  DistanceRow(before, a[r], b, 1, <<before[1] + 1>>)

\* the Levenshtein distance of a and b by its recurrence over prefixes
Distance(a, b) == DistanceRows(a, b, Len(a))[Len(b) + 1]

\* C27: edit_distance returns the cost of a valid edit script: at least the
\* Levenshtein distance and at most the length of the longer sequence; the
\* rolling row after i units has cur[0] = i and cur[j] <= max(i, j).
C27_EditDistanceBounds ==
    /\ (fn = "edit_distance" /\ pc = "loop") =>
           /\ previous_row[0] = pos
           /\ \A c \in 0..Len(str2) :
                  previous_row[c] <= (IF pos >= c THEN pos ELSE c)
    /\ Returned("edit_distance") =>
           /\ ret >= Distance(arg1, arg2)
           /\ ret <= Longer(arg1, arg2)

C27_Witness ==
    /\ Returned("edit_distance")
    /\ arg1 = <<"a", "a", "b", "b", "a">>
    /\ arg2 = <<"b", "b", "a", "the", "the">>
    /\ ret = 5

\* C28: in the operation matrix of full_edit_distance an interior cell is
\* 'm' exactly when unit i of seq1 equals unit j of seq2, whatever the
\* scores and overrides; its score is then the score of the diagonal cell.
C28_MatchIffEqual ==
    Returned("full_edit_distance") =>
        \A r \in 1..Len(arg1) : \A c \in 1..Len(arg2) :
            /\ steps[r][c] = "m" <=> arg1[r] = arg2[c]
            /\ arg1[r] = arg2[c] => matrix[r][c] = matrix[r - 1][c - 1]
            /\ arg1[r] # arg2[c] => steps[r][c] \in {"s", "i", "d"}

C28_Witness ==
    /\ Returned("full_edit_distance")
    /\ kwargs = ("substitutionscore" :> -7)
    /\ arg1 = <<"a", "b">>
    /\ arg2 = <<"a", "a">>
    /\ steps[1][2] = "m"
    /\ matrix[1][2] = matrix[0][1]
    /\ steps[2][1] # "m"

-----------------------------------------------------------------------------
(* extract_hocr_tokens: the words of the span elements of an hOCR file.    *)
(* The file is the sequence of its elements in the order their end tags    *)
(* are read, each with its tag and its text; text is a sequence of code    *)
(* points.                                                                 *)

\* most elements of a sample file
MaxElements == 3

\* element.text of an element without text: U+0000 cannot occur in a
\* document, so this is no text of any element
None == <<0>>

\* the whitespace str.rstrip() removes, of the sample texts: '\n' and ' '
Whitespace == {10, 32}

\* the sample texts: none, '\n', 'w', 'w\n', ' w', 'w w '
Texts == {None, <<10>>, <<119>>, <<119, 10>>, <<32, 119>>, <<119, 32, 119, 32>>}

Tags == {"span", "p"}

HocrElements == [tag : Tags, text : Texts]

\* str.rstrip(): t without its trailing whitespace
RECURSIVE rstrip(_)
rstrip(t) ==
    IF t # <<>> /\ t[Len(t)] \in Whitespace
    THEN rstrip(SubSeq(t, 1, Len(t) - 1))
    ELSE t

\* to_unicode of a text of the parser: the same characters
to_unicode(t) == t

\* etree.iterparse(hocr_file, events=('end',), tag='span', html=True): the
\* positions of the span elements, in the order their end tags are read
span_events(file) == {q \in 1..Len(file) : file[q].tag = "span"}

\* the first span event at or after position q, Len(file) + 1 if none
next_event(file, q) ==
    IF \E e \in span_events(file) : e >= q
    THEN CHOOSE e \in span_events(file) :
             e >= q /\ \A o \in span_events(file) : o >= q => e <= o
    ELSE Len(file) + 1

InitHocr ==
    /\ fn = "extract_hocr_tokens"
    /\ pc = "call"
    /\ err = ""
    /\ arg1 = <<>>
    /\ arg2 = <<>>
    /\ kwargs = EmptyMap
    /\ charmatrix = EmptyMap
    /\ str1 = <<>>
    /\ str2 = <<>>
    /\ previous_row = <<>>
    /\ pos = 0
    /\ matrix = <<>>
    /\ steps = <<>>
    /\ i = 0
    /\ j = 0
    /\ path = <<>>
    /\ ret = 0
    /\ calls = 1
    /\ NoLookup
    /\ hocr_file \in SeqsUpTo(HocrElements, MaxElements)
    /\ context = 0
    /\ words = <<>>

\* words = []; context = etree.iterparse(...)
ExtractHocrTokensCall ==
    /\ pc = "call"
    /\ fn = "extract_hocr_tokens"
    /\ words' = <<>>
    /\ context' = next_event(hocr_file, 1)
    /\ pc' = "events"
    /\ UNCHANGED <<fn, err, alignVars, lookupVars, hocr_file>>

\* one iteration of "for event, element in context" on an element with
\* text: the stripped text is appended unless it is empty; clear() and the
\* deletion of the previous siblings free elements that are not read again
ExtractHocrTokensElement ==
    /\ pc = "events"
    /\ context <= Len(hocr_file)
    /\ hocr_file[context].text # None
    /\ LET w == to_unicode(rstrip(hocr_file[context].text))
       IN  words' = IF Len(w) > 0 THEN Append(words, w) ELSE words
    /\ context' = next_event(hocr_file, context + 1)
    /\ UNCHANGED <<fn, pc, err, alignVars, lookupVars, hocr_file>>

\* the iteration on an element without text: element.text is None, and
\* None.rstrip() raises AttributeError
ExtractHocrTokensNoText ==
    /\ pc = "events"
    /\ context <= Len(hocr_file)
    /\ hocr_file[context].text = None
    /\ pc' = "raised"
    /\ err' = "AttributeError"
    /\ UNCHANGED <<fn, alignVars, lookupVars, hocrVars>>

\* del context; return words
ExtractHocrTokensReturn ==
    /\ pc = "events"
    /\ context > Len(hocr_file)
    /\ pc' = "done"
    /\ UNCHANGED <<fn, err, alignVars, lookupVars, hocrVars>>

NextHocr ==
    \/ ExtractHocrTokensCall
    \/ ExtractHocrTokensElement
    \/ ExtractHocrTokensNoText
    \/ ExtractHocrTokensReturn

SpecHocr == InitHocr /\ [][NextHocr]_vars

\* the text of an element without its trailing whitespace, empty if none
Stripped(e) ==
    IF e.text = None THEN <<>>
    ELSE LET keep == {q \in 0..Len(e.text) :
                         /\ q = 0 \/ e.text[q] \notin Whitespace
                         /\ \A o \in (q + 1)..Len(e.text) : e.text[o] \in Whitespace}
         IN  SubSeq(e.text, 1, CHOOSE q \in keep : TRUE)

\* the stripped, non-empty texts of the spans among the first n elements
RECURSIVE TokensOf(_, _)
TokensOf(file, n) ==
    IF n = 0 THEN <<>>
    ELSE TokensOf(file, n - 1)
             \o (IF file[n].tag = "span" /\ Stripped(file[n]) # <<>>
                 THEN <<Stripped(file[n])>> ELSE <<>>)

\* C26: extract_hocr_tokens returns, in the order of the document, the text
\* of each span without its trailing whitespace, for exactly the spans whose
\* stripped text is not empty; no token is empty or ends in whitespace.
C26_TokensOfSpans ==
    Finished("extract_hocr_tokens") =>
        /\ pc = "done"
        /\ words = TokensOf(hocr_file, Len(hocr_file))
        /\ \A q \in 1..Len(words) :
               words[q] # <<>> /\ words[q][Len(words[q])] \notin Whitespace
====
